---- MODULE Spec2Model ----
(***************************************************************************)
(* VneTemplate: the placeholder library (get_version, hello) and the       *)
(* platform build scripts (build_linux.sh, build_macos.sh, the minimal     *)
(* macOS script, build_windows.sh, build_windows.ps1).                     *)
(*                                                                         *)
(* Five specifications share the variables:                                *)
(*   LibSpec      threads calling get_version() and hello() of one build   *)
(*                of the library;                                          *)
(*   Spec         one run of one build script on one command line;         *)
(*   FormatSpec   one run of format.sh on one source tree;                 *)
(*   DocsSpec     one run of generate-docs.sh in one checkout;             *)
(*   ExampleSpec  one run of the example program.                          *)
(* Each specification holds the other ones' variables at their initial     *)
(* values.                                                                 *)
(***************************************************************************)
EXTENDS Naturals, Integers, Sequences, FiniteSets, TLC

VARIABLES
    \* ---- the library (template.cpp) ----
    PROJECT_VERSION,   \* the macro config.h defines, fixed when the build is configured
    mem,               \* the program's storage the two functions can reach: address -> C string
    pc_t,              \* per thread: "idle", or the function it is inside
    ret,               \* per thread: the last call that returned, [fn, ptr]
    ncalls,            \* per thread: calls started
    observed,          \* per function: the set of strings its calls have returned
    \* ---- one run of a build script ----
    script,            \* which script runs
    argv,              \* its command line
    env,               \* the tools found in PATH
    dir0,              \* the build directory before the run: "absent" or "stale"
    dir,               \* the build directory now
    pc,                \* the script's position
    JOBS, ARGS, BUILD_TYPE,
    Action,            \* $ACTION (ACTION is a reserved word of TLA+)
    COMPILER, CLEAN_BUILD, INTERACTIVE_MODE,
    GENERATE_XCODE, XCODE_ONLY,
    steps,             \* the commands run so far: "rm", "mkdir", "configure", "build", "test"
    failed,            \* the steps among them that ended with a non-zero status
    out,               \* the messages printed so far
    exit_code,         \* -1 while running, else the exit status
    \* ---- one run of format.sh (with script, argv, env, pc, out, exit_code) ----
    tree0,             \* the files under PROJECT_ROOT before the run: path -> state
    tree,              \* the files now
    CHECK_ONLY,
    SOURCES,           \* the paths find printed
    examined,          \* the words clang-format was started on
    rewritten,         \* the files clang-format -i wrote
    \* ---- one run of generate-docs.sh (with script, argv, env, pc, steps, failed,
    \*      out, exit_code) ----
    project,           \* what the checkout holds: CMakeLists.txt, docs/, the README files
    DOXYGEN_AVAILABLE, LINK_CHECK_AVAILABLE,   \* "" until check_prerequisites sets them
    phases,            \* the functions of the script called so far
    \* ---- a program that uses LoggingGuard (examples/) ----
    program,           \* the statements of main(), in order
    ip,                \* how many of them have run
    live,              \* the LoggingGuard objects alive, innermost last
    log_calls,         \* the calls into the logging library so far
    main_ret           \* -1 while main runs, else what it returned

libvars == <<PROJECT_VERSION, mem, pc_t, ret, ncalls, observed>>
runvars == <<script, argv, env, dir0, dir, pc, JOBS, ARGS, BUILD_TYPE, Action,
             COMPILER, CLEAN_BUILD, INTERACTIVE_MODE, GENERATE_XCODE, XCODE_ONLY,
             steps, failed, out, exit_code>>
fmtvars == <<tree0, tree, CHECK_ONLY, SOURCES, examined, rewritten>>
docvars == <<project, DOXYGEN_AVAILABLE, LINK_CHECK_AVAILABLE, phases>>
exvars == <<program, ip, live, log_calls, main_ret>>
toolvars == <<fmtvars, docvars, exvars>>
vars == <<libvars, runvars, toolvars>>

\* No run of format.sh is in progress.
FmtIdle ==
    /\ tree0 = <<>>
    /\ tree = <<>>
    /\ CHECK_ONLY = FALSE
    /\ SOURCES = {}
    /\ examined = {}
    /\ rewritten = {}

\* No run of generate-docs.sh is in progress.
DocIdle ==
    /\ project = <<>>
    /\ DOXYGEN_AVAILABLE = ""
    /\ LINK_CHECK_AVAILABLE = ""
    /\ phases = <<>>

\* No example program runs.
ExIdle ==
    /\ program = <<>>
    /\ ip = 0
    /\ live = <<>>
    /\ log_calls = <<>>
    /\ main_ret = -1

ToolIdle == FmtIdle /\ DocIdle /\ ExIdle

(***************************************************************************)
(*                          THE LIBRARY                                    *)
(***************************************************************************)

\* Bounds of the library model.
NumThreads == 2
MaxCalls == 2

Threads == 1..NumThreads

\* A null const char*.
nullptr == "nullptr"

\* The addresses of the two string literals of template.cpp.
ADDR_HELLO == "&\"Hello from VneTemplate\""
ADDR_VERSION == "&PROJECT_VERSION"

\* The version texts a build can be configured with: semantic version strings
\* (the VERSION file is read by CMake at configure time).
VersionTexts == {"0.1.0", "1.0.0", "1.2.3", "10.20.30"}

\* The storage of a build configured with version text v.
ImageOf(v) ==
    (ADDR_HELLO :> "Hello from VneTemplate") @@ (ADDR_VERSION :> v)

\* The result of a call: the pointer returned and the storage left behind.
\* Variants of the two bodies with one slip each, used to test the properties.
get_version_null(m) ==
    [ptr |-> nullptr, mem |-> m]
get_version_hello(m) ==
    [ptr |-> ADDR_HELLO, mem |-> m]
\* the version is copied into a buffer that overlays the greeting
get_version_static_buffer(m) ==
    [ptr |-> ADDR_HELLO, mem |-> [m EXCEPT ![ADDR_HELLO] = m[ADDR_VERSION]]]

\* const char* get_version() { return PROJECT_VERSION; }
get_version(m) ==
    [ptr |-> ADDR_VERSION, mem |-> m]

hello_from_version(m) ==
    [ptr |-> ADDR_VERSION, mem |-> m]
\* the greeting is built in a buffer that overlays the version
hello_shared_buffer(m) ==
    [ptr |-> ADDR_VERSION, mem |-> [m EXCEPT ![ADDR_VERSION] = m[ADDR_HELLO]]]

\* const char* hello() { return "Hello from VneTemplate"; }
hello(m) ==
    [ptr |-> ADDR_HELLO, mem |-> m]

Functions == {"get_version", "hello"}

Body(f, m) == IF f = "get_version" THEN get_version(m) ELSE hello(m)

\* The C string a returned pointer points to.
Str(p) == mem[p]

NoReturn == [fn |-> "none", ptr |-> nullptr]

RunIdle ==
    /\ script = "none"
    /\ argv = <<>>
    /\ env = {}
    /\ dir0 = "absent"
    /\ dir = "absent"
    /\ pc = "none"
    /\ JOBS = ""
    /\ ARGS = <<>>
    /\ BUILD_TYPE = ""
    /\ Action = ""
    /\ COMPILER = ""
    /\ CLEAN_BUILD = FALSE
    /\ INTERACTIVE_MODE = FALSE
    /\ GENERATE_XCODE = FALSE
    /\ XCODE_ONLY = FALSE
    /\ steps = <<>>
    /\ failed = {}
    /\ out = <<>>
    /\ exit_code = -1

LibInit ==
    /\ PROJECT_VERSION \in VersionTexts
    /\ mem = ImageOf(PROJECT_VERSION)
    /\ pc_t = [t \in Threads |-> "idle"]
    /\ ret = [t \in Threads |-> NoReturn]
    /\ ncalls = [t \in Threads |-> 0]
    /\ observed = [f \in Functions |-> {}]
    /\ RunIdle
    /\ ToolIdle

\* Thread t calls f: nothing to wait for, no argument to pass.
Call(t, f) ==
    /\ pc_t[t] = "idle"
    /\ ncalls[t] < MaxCalls
    /\ pc_t' = [pc_t EXCEPT ![t] = f]
    /\ ncalls' = [ncalls EXCEPT ![t] = @ + 1]
    /\ UNCHANGED <<PROJECT_VERSION, mem, ret, observed, runvars, toolvars>>

\* The body of f runs in thread t and returns.
Return(t) ==
    /\ pc_t[t] \in Functions
    /\ LET r == Body(pc_t[t], mem) IN
        /\ mem' = r.mem
        /\ ret' = [ret EXCEPT ![t] = [fn |-> pc_t[t], ptr |-> r.ptr]]
        /\ observed' = [observed EXCEPT ![pc_t[t]] =
                            @ \cup {IF r.ptr = nullptr THEN nullptr ELSE r.mem[r.ptr]}]
    /\ pc_t' = [pc_t EXCEPT ![t] = "idle"]
    /\ UNCHANGED <<PROJECT_VERSION, ncalls, runvars, toolvars>>

LibNext ==
    \/ \E t \in Threads, f \in Functions : Call(t, f)
    \/ \E t \in Threads : Return(t)

LibSpec == LibInit /\ [][LibNext]_vars

(***************************************************************************)
(*                        THE BUILD SCRIPTS                                *)
(***************************************************************************)

\* Bound of the script model: the longest command line tried.
MaxArgs == 3

LINUX == "build_linux.sh"
MACOS == "build_macos.sh"
MACOS_MIN == "unnamed/part_002"    \* the minimal macOS build script
WINDOWS_SH == "build_windows.sh"
WINDOWS_PS1 == "build_windows.ps1"

BashScripts == {LINUX, MACOS, MACOS_MIN, WINDOWS_SH}
Scripts == BashScripts \cup {WINDOWS_PS1}

\* The words tried on the command line of each script.
Words(sc) ==
    IF sc = WINDOWS_PS1
    THEN {"-BuildType", "Release", "-Action", "configure", "test", "bogus",
          "-Clean", "-Jobs", "4", "-Foo"}
    ELSE {"-t", "Release", "-a", "configure", "test", "bogus", "-clean", "-j", "4",
          "--bogus", "--jobs", "-j8", "-jx"}
         \cup (IF sc = LINUX THEN {"-c", "clang", "-interactive"} ELSE {})
         \cup (IF sc = MACOS THEN {"-xcode", "-xcode-only", "-interactive"} ELSE {})
         \cup (IF sc = MACOS_MIN THEN {"-xcode"} ELSE {})
         \cup (IF sc = WINDOWS_SH THEN {"-interactive"} ELSE {})

\* The command lines tried: every sequence of at most MaxArgs words.
Argvs(sc) == UNION {[1..n -> Words(sc)] : n \in 0..MaxArgs}

\* A Visual Studio installation that vswhere.exe reports (build_windows.ps1
\* looks for it to pick its generator).
VISUAL_STUDIO == "Visual Studio"

\* The tools whose presence in PATH is varied, per script (cmake is present for
\* the scripts that do not look for it themselves); for build_windows.ps1 also
\* whether Visual Studio is installed.
Envs(sc) ==
    CASE sc = LINUX -> {e \cup {"cmake"} : e \in SUBSET {"gcc", "clang"}}
      [] sc \in {MACOS, MACOS_MIN} -> {e \cup {"cmake"} : e \in SUBSET {"clang"}}
      [] sc = WINDOWS_SH -> SUBSET {"cl", "cmake"}
      [] OTHER -> SUBSET {"cl", "cmake", VISUAL_STUDIO}

\* The answers typed at the prompts of interactive_mode (build type, compiler,
\* action, clean, proceed); "" is the Enter key.
BuildChoices == {"", "4"}
CompilerChoices == {"", "2"}
ActionChoices == {"", "1", "3"}
CleanChoices == {"", "y"}
ProceedChoices == {"", "n"}

\* Variant with one slip, used to test the properties: the test without the
\* pattern.
IsDigits_nonempty(s) == Len(s) > 0

\* [[ "$s" =~ ^[0-9]+$ ]]
IsDigits(s) ==
    /\ Len(s) > 0
    /\ \A i \in 1..Len(s) :
          SubSeq(s, i, i) \in {"0", "1", "2", "3", "4", "5", "6", "7", "8", "9"}

\* the case pattern -j*
StartsWithDashJ(s) == Len(s) >= 2 /\ SubSeq(s, 1, 2) = "-j"

\* "${1#-j}"
StripDashJ(s) == SubSeq(s, 3, Len(s))

\* The jobs loop that every bash script starts with: it takes -j N, --jobs N and
\* -jN out of the arguments and keeps the rest in ARGS.
RECURSIVE JobsLoop(_, _, _)
JobsLoop(args, jobs, kept) ==
    IF args = <<>> THEN [code |-> -1, JOBS |-> jobs, ARGS |-> kept, out |-> <<>>]
    ELSE LET a == Head(args)
             v == IF Len(args) >= 2 THEN args[2] ELSE ""
         IN  IF a \in {"-j", "--jobs"}
             THEN IF v # "" /\ IsDigits(v)
                  THEN JobsLoop(SubSeq(args, 3, Len(args)), v, kept)
                  ELSE [code |-> 1, JOBS |-> jobs, ARGS |-> kept,
                        out |-> <<"Invalid jobs">>]
             ELSE IF StartsWithDashJ(a)
             THEN IF IsDigits(StripDashJ(a))
                  THEN JobsLoop(Tail(args), StripDashJ(a), kept)
                  ELSE [code |-> 1, JOBS |-> StripDashJ(a), ARGS |-> kept,
                        out |-> <<"Invalid jobs">>]
             ELSE JobsLoop(Tail(args), jobs, Append(kept, a))

\* The compiler variable before the option loop.
DefaultCompiler(sc) ==
    CASE sc = LINUX -> "gcc"
      [] sc = WINDOWS_SH -> "cl"
      [] sc = WINDOWS_PS1 -> "cl"
      [] OTHER -> "clang"

\* Variant with one slip, used to test the properties: the default build type.
Defaults_Release(sc, jobs) ==
    [BUILD_TYPE |-> "Release", Action |-> "configure_and_build",
     COMPILER |-> DefaultCompiler(sc),
     CLEAN_BUILD |-> FALSE, INTERACTIVE_MODE |-> FALSE, GENERATE_XCODE |-> FALSE,
     XCODE_ONLY |-> FALSE, JOBS |-> jobs, out |-> <<>>, code |-> -1]

\* The settings before the option loop ("Default values").
Defaults(sc, jobs) ==
    [BUILD_TYPE |-> "Debug", Action |-> "configure_and_build", COMPILER |-> DefaultCompiler(sc),
     CLEAN_BUILD |-> FALSE, INTERACTIVE_MODE |-> FALSE, GENERATE_XCODE |-> FALSE,
     XCODE_ONLY |-> FALSE, JOBS |-> jobs, out |-> <<>>, code |-> -1]

\* usage(): prints the usage text and exits 1.
Usage(st) == [st EXCEPT !.out = Append(@, "Usage"), !.code = 1]

\* The option loop of a bash script (while [[ $# -gt 0 ]]; case $1 in ...).
\* An option with a value reads "$2" and shifts by 2; with the value missing the
\* variable is set to "" and the failing shift ends the script (set -e).
RECURSIVE OptionLoop(_, _, _)
OptionLoop(sc, args, st) ==
    IF args = <<>> THEN st
    ELSE LET a == Head(args)
             WithValue(field) ==
                 IF Len(args) >= 2
                 THEN OptionLoop(sc, SubSeq(args, 3, Len(args)),
                                 [st EXCEPT ![field] = args[2]])
                 ELSE [st EXCEPT ![field] = "", !.code = 1]
             Flag(field) ==
                 OptionLoop(sc, Tail(args), [st EXCEPT ![field] = TRUE])
         IN  CASE a \in {"-t", "--build-type"} -> WithValue("BUILD_TYPE")
               [] a \in {"-a", "--action"} -> WithValue("Action")
               [] a \in {"-c", "--compiler"} /\ sc = LINUX -> WithValue("COMPILER")
               [] a \in {"-clean", "--clean"} -> Flag("CLEAN_BUILD")
               [] a \in {"-interactive", "--interactive"}
                    /\ sc \in {LINUX, MACOS, WINDOWS_SH} -> Flag("INTERACTIVE_MODE")
               [] a \in {"-xcode", "--xcode"} /\ sc \in {MACOS, MACOS_MIN} ->
                    Flag("GENERATE_XCODE")
               [] a \in {"-xcode-only", "--xcode-only"} /\ sc = MACOS ->
                    OptionLoop(sc, Tail(args),
                               [st EXCEPT !.XCODE_ONLY = TRUE, !.GENERATE_XCODE = TRUE])
               [] a \in {"-j", "--jobs"} /\ sc = MACOS_MIN -> WithValue("JOBS")
               [] a \in {"-h", "--help"} -> Usage(st)
               [] OTHER -> Usage([st EXCEPT !.out = Append(@, "Unknown option")])


\* ---- build_windows.ps1: the param block ----

BuildTypes == {"Debug", "Release", "RelWithDebInfo", "MinSizeRel"}
PsActions == {"configure", "build", "configure_and_build", "test"}

\* A word PowerShell reads as a parameter name.
IsParameterWord(a) == Len(a) >= 1 /\ SubSeq(a, 1, 1) = "-"

\* Named binding of param(): -BuildType v, -Action v, -Jobs v, -Clean. The
\* script has no CmdletBinding: a word that has the form of a parameter name and
\* names no parameter is not an error; it stays, like the plain words, among
\* the arguments left unbound (pos), in their order. A value is <<v>> once
\* bound, <<>> before.
RECURSIVE PsNamed(_, _)
PsNamed(args, b) ==
    IF args = <<>> \/ b.err THEN b
    ELSE LET a == Head(args) IN
         IF a = "-Clean"
         THEN IF b.Clean THEN [b EXCEPT !.err = TRUE]
              ELSE PsNamed(Tail(args), [b EXCEPT !.Clean = TRUE])
         ELSE IF a \in {"-BuildType", "-Action", "-Jobs"}
         THEN LET name == SubSeq(a, 2, Len(a)) IN
              IF b[name] # <<>> \/ Len(args) < 2 \/ IsParameterWord(args[2])
              THEN [b EXCEPT !.err = TRUE]
              ELSE PsNamed(SubSeq(args, 3, Len(args)), [b EXCEPT ![name] = <<args[2]>>])
         ELSE PsNamed(Tail(args), [b EXCEPT !.pos = Append(@, a)])

\* The arguments left after the named binding that can be bound by position:
\* a word that has the form of a parameter name is never bound by position and
\* takes the plain word after it along (as its value); both go to $args.
RECURSIVE PsPlain(_)
PsPlain(words) ==
    IF words = <<>> THEN <<>>
    ELSE IF IsParameterWord(Head(words))
    THEN IF Len(words) >= 2 /\ ~IsParameterWord(words[2])
         THEN PsPlain(SubSeq(words, 3, Len(words)))
         ELSE PsPlain(Tail(words))
    ELSE <<Head(words)>> \o PsPlain(Tail(words))

\* Positional binding: the parameters still unbound take the positional
\* arguments in declaration order (a switch takes none); what is left goes
\* to $args.
RECURSIVE PsPositional(_, _)
PsPositional(names, b) ==
    IF names = <<>> \/ b.pos = <<>> THEN b
    ELSE IF b[Head(names)] # <<>> THEN PsPositional(Tail(names), b)
    ELSE PsPositional(Tail(names),
                      [b EXCEPT ![Head(names)] = <<Head(b.pos)>>, !.pos = Tail(@)])

\* param(...) of build_windows.ps1: binding, [ValidateSet], [int], defaults.
PsBind(args) ==
    LET b0 == [BuildType |-> <<>>, Action |-> <<>>, Jobs |-> <<>>, Clean |-> FALSE,
               pos |-> <<>>, err |-> FALSE]
        b1 == PsNamed(args, b0)
        b == IF b1.err THEN b1
             ELSE PsPositional(<<"BuildType", "Action", "Jobs">>,
                               [b1 EXCEPT !.pos = PsPlain(@)])
        bt == IF b.BuildType = <<>> THEN "Debug" ELSE b.BuildType[1]
        ac == IF b.Action = <<>> THEN "configure_and_build" ELSE b.Action[1]
        jb == IF b.Jobs = <<>> THEN "10" ELSE b.Jobs[1]
        ok == ~b.err /\ bt \in BuildTypes /\ ac \in PsActions /\ IsDigits(jb)
    IN  [code |-> IF ok THEN -1 ELSE 1, BUILD_TYPE |-> bt, Action |-> ac, JOBS |-> jb,
         CLEAN_BUILD |-> b.Clean]

\* ---- what an action runs ----

\* Variant with one slip, used to test the properties: the configure branch
\* falls into the build.
Plan_configure_builds(sc, a) ==
    CASE a \in {"configure", "build", "configure_and_build"} -> <<"configure", "build">>
      [] a = "test" -> <<"configure", "build", "test">>
      [] a = "xcode" /\ sc = MACOS -> <<"configure">>
      [] a = "xcode_build" /\ sc = MACOS -> <<"configure", "build">>
      [] OTHER -> <<>>

\* Variant with one slip, used to test the properties: the xcode branch also
\* builds.
Plan_xcode_builds(sc, a) ==
    CASE a = "configure" -> <<"configure">>
      [] a \in {"build", "configure_and_build"} -> <<"configure", "build">>
      [] a = "test" -> <<"configure", "build", "test">>
      [] a \in {"xcode", "xcode_build"} /\ sc = MACOS -> <<"configure", "build">>
      [] OTHER -> <<>>

\* case $ACTION in ... / switch ($Action): the steps of an action, <<>> for a
\* value that matches no branch.
Plan(sc, a) ==
    CASE a = "configure" -> <<"configure">>
      [] a \in {"build", "configure_and_build"} -> <<"configure", "build">>
      [] a = "test" -> <<"configure", "build", "test">>
      [] a = "xcode" /\ sc = MACOS -> <<"configure">>
      [] a = "xcode_build" /\ sc = MACOS -> <<"configure", "build">>
      [] OTHER -> <<>>

\* CONFIGURE_CMD of the macOS scripts: cmake -G Xcode when GENERATE_XCODE is
\* true, cmake with its default generator (Unix Makefiles) when it is not.
ConfiguresXcode(sc, xcode) == sc \in {MACOS, MACOS_MIN} /\ xcode

\* CONFIGURE_COMMAND / CONFIGURE_CMD / build_cmake_command / $ConfigureCmd: the
\* words of the cmake command line of the configure step, for build type bt,
\* compiler c and GENERATE_XCODE xcode. "$PROJECT_ROOT", "$BuildDir" and
\* "$Generator" stand for the values of these variables.
ConfigureCommand(sc, bt, c, xcode) ==
    CASE sc = LINUX ->
           (CASE c = "gcc" -> <<"cmake", "-DCMAKE_BUILD_TYPE=" \o bt, "-DCMAKE_C_COMPILER=gcc",
                                "-DCMAKE_CXX_COMPILER=g++", "-DBUILD_TESTS=ON">>
              [] c = "clang" -> <<"cmake", "-DCMAKE_BUILD_TYPE=" \o bt,
                                  "-DCMAKE_C_COMPILER=clang", "-DCMAKE_CXX_COMPILER=clang++",
                                  "-DBUILD_TESTS=ON">>
              [] OTHER -> <<>>)
           \o <<"$PROJECT_ROOT">>
      [] sc = MACOS ->
           <<"cmake">> \o (IF xcode THEN <<"-G", "Xcode">> ELSE <<>>)
           \o <<"-DCMAKE_BUILD_TYPE=" \o bt, "-DCMAKE_C_COMPILER=clang",
                "-DCMAKE_CXX_COMPILER=clang++", "-DCMAKE_OSX_DEPLOYMENT_TARGET=10.15",
                "-DVNE_TEMPLATE_TESTS=ON", "$PROJECT_ROOT">>
      [] sc = MACOS_MIN ->
           <<"cmake">> \o (IF xcode THEN <<"-G", "Xcode">> ELSE <<>>)
           \o <<"-DCMAKE_BUILD_TYPE=" \o bt, "-DCMAKE_C_COMPILER=clang",
                "-DCMAKE_CXX_COMPILER=clang++", "-DCMAKE_OSX_DEPLOYMENT_TARGET=10.15",
                "-DBUILD_TESTS=ON", "$PROJECT_ROOT">>
      [] sc = WINDOWS_SH ->
           <<"cmake", "-G", "Visual Studio 17 2022", "-A", "x64", "-DCMAKE_BUILD_TYPE=" \o bt,
             "-DCMAKE_C_COMPILER=cl", "-DCMAKE_CXX_COMPILER=cl", "-DVNE_TEMPLATE_TESTS=ON",
             "$PROJECT_ROOT">>
      [] OTHER ->
           <<"cmake", "-B", "$BuildDir", "-S", "$ProjectRoot", "-DCMAKE_BUILD_TYPE=" \o bt,
             "-DBUILD_TESTS=ON", "$Generator">>

\* The program BUILD_CMD / BUILD_COMMAND / $BuildCmd starts.
BuildTool(sc, xcode) ==
    CASE sc = LINUX -> "make"
      [] sc \in {MACOS, MACOS_MIN} -> IF xcode THEN "xcodebuild" ELSE "make"
      [] OTHER -> "cmake"

\* The program TEST_CMD / TEST_COMMAND / $TestCmd starts. In build_macos.sh the
\* list  [ X ] && BUILD_CMD=.. && TEST_CMD=.. || BUILD_CMD=.. && TEST_CMD=ctest
\* ends with the ctest assignment whichever way the test went.
TestTool(sc, xcode) ==
    IF sc = MACOS_MIN /\ xcode THEN "xcodebuild" ELSE "ctest"

\* The exit status of a tool that fails.
FailStatus(tool) ==
    CASE tool = "make" -> 2
      [] tool = "ctest" -> 8
      [] tool = "xcodebuild" -> 65
      [] OTHER -> 1

\* The compiler the configure step looks for.
NeededCompiler(sc, compiler) ==
    CASE sc = LINUX -> compiler
      [] sc \in {MACOS, MACOS_MIN} -> "clang"
      [] OTHER -> "cl"

\* cmake can find the compiler of the configure command in the surroundings e.
\* build_windows.ps1 picks -G "Visual Studio 17 2022" -A x64 when vswhere
\* reports an installation: that command names no compiler and cmake takes
\* MSVC from the installation; its other generator, Ninja, is given cl.exe,
\* which has to be in PATH, as have the compilers the bash scripts name.
CompilerFound(sc, compiler, e) ==
    IF sc = WINDOWS_PS1 /\ VISUAL_STUDIO \in e THEN TRUE
    ELSE NeededCompiler(sc, compiler) \in e


\* ---- one run of a script ----

LibIdle ==
    /\ PROJECT_VERSION = ""
    /\ mem = <<>>
    /\ pc_t = <<>>
    /\ ret = <<>>
    /\ ncalls = <<>>
    /\ observed = <<>>

\* The script is started: one script, one command line, one PATH, the build
\* directory absent or left over from an earlier run; no shell variable is set.
Init ==
    /\ LibIdle
    /\ ToolIdle
    /\ script \in Scripts
    /\ argv \in Argvs(script)
    /\ env \in Envs(script)
    /\ dir0 \in {"absent", "stale"}
    /\ dir = dir0
    /\ pc = "start"
    /\ JOBS = ""
    /\ ARGS = <<>>
    /\ BUILD_TYPE = ""
    /\ Action = ""
    /\ COMPILER = ""
    /\ CLEAN_BUILD = FALSE
    /\ INTERACTIVE_MODE = FALSE
    /\ GENERATE_XCODE = FALSE
    /\ XCODE_ONLY = FALSE
    /\ steps = <<>>
    /\ failed = {}
    /\ out = <<>>
    /\ exit_code = -1

inputs == <<script, argv, env, dir0>>
settings == <<BUILD_TYPE, Action, COMPILER, CLEAN_BUILD, INTERACTIVE_MODE,
              GENERATE_XCODE, XCODE_ONLY>>

\* The script goes on at position p, or ends with status code when code # -1.
GoOn(code, p) ==
    IF code = -1
    THEN pc' = p /\ exit_code' = exit_code
    ELSE pc' = "exited" /\ exit_code' = code

\* JOBS=10 and the jobs loop, then set -- "${ARGS[@]}".
ParseJobs ==
    /\ pc = "start"
    /\ script \in BashScripts
    /\ LET r == JobsLoop(argv, "10", <<>>) IN
        /\ JOBS' = r.JOBS
        /\ ARGS' = r.ARGS
        /\ out' = out \o r.out
        /\ GoOn(r.code, "options")
    /\ UNCHANGED <<libvars, toolvars, inputs, settings, dir, steps, failed>>

\* The default values and the option loop.
ParseOptions ==
    /\ pc = "options"
    /\ LET r == OptionLoop(script, ARGS, Defaults(script, JOBS)) IN
        /\ BUILD_TYPE' = r.BUILD_TYPE
        /\ Action' = r.Action
        /\ COMPILER' = r.COMPILER
        /\ CLEAN_BUILD' = r.CLEAN_BUILD
        /\ INTERACTIVE_MODE' = r.INTERACTIVE_MODE
        /\ GENERATE_XCODE' = r.GENERATE_XCODE
        /\ XCODE_ONLY' = r.XCODE_ONLY
        /\ JOBS' = r.JOBS
        /\ out' = out \o r.out
        /\ GoOn(r.code, CASE script = LINUX /\ r.INTERACTIVE_MODE -> "interactive"
                          [] script = MACOS -> "normalise"
                          [] OTHER -> "detect")
    /\ UNCHANGED <<libvars, toolvars, inputs, ARGS, dir, steps, failed>>

\* PowerShell binds the param block before the first statement runs; a binding
\* or validation error ends the script with status 1.
BindParameters ==
    /\ pc = "start"
    /\ script = WINDOWS_PS1
    /\ LET r == PsBind(argv) IN
        /\ BUILD_TYPE' = (IF r.code = -1 THEN r.BUILD_TYPE ELSE BUILD_TYPE)
        /\ Action' = (IF r.code = -1 THEN r.Action ELSE Action)
        /\ JOBS' = (IF r.code = -1 THEN r.JOBS ELSE JOBS)
        /\ CLEAN_BUILD' = (IF r.code = -1 THEN r.CLEAN_BUILD ELSE CLEAN_BUILD)
        /\ COMPILER' = (IF r.code = -1 THEN DefaultCompiler(script) ELSE COMPILER)
        /\ out' = (IF r.code = -1 THEN out ELSE Append(out, "ParameterBindingException"))
        /\ GoOn(r.code, "detect")
    /\ UNCHANGED <<libvars, toolvars, inputs, ARGS, INTERACTIVE_MODE, GENERATE_XCODE, XCODE_ONLY,
                   dir, steps, failed>>

\* The first line interactive_mode() prints, ahead of its prompts.
InteractiveHeader == "=== VneTemplate Interactive Build Configuration ==="

\* What a read finds when the input has ended: no line.
EndOfInput == "end of input"

\* What interactive_mode() leaves as it was, whichever prompt it is at.
prompt_fixed == <<libvars, toolvars, inputs, JOBS, ARGS, INTERACTIVE_MODE, GENERATE_XCODE,
                  XCODE_ONLY, dir, steps, failed>>

\* read -p under set -e: a read that finds no line fails and ends the script
\* with status 1; otherwise the function goes on to position p.
AfterRead(answer, p) ==
    IF answer = EndOfInput THEN GoOn(1, p) ELSE GoOn(-1, p)

\* interactive_mode() of build_linux.sh, up to its first prompt: the header
\* and the list of build types are printed and the script waits for a line.
InteractiveMode ==
    /\ pc = "interactive"
    /\ out' = Append(out, InteractiveHeader)
    /\ pc' = "build_choice"
    /\ UNCHANGED <<prompt_fixed, BUILD_TYPE, COMPILER, Action, CLEAN_BUILD, exit_code>>

\* read -p "Enter choice (1-4) [1]: " build_choice, and the case after it.
ReadBuildChoice ==
    /\ pc = "build_choice"
    /\ \E build_choice \in BuildChoices \cup {EndOfInput} :
        /\ BUILD_TYPE' = (CASE build_choice = EndOfInput -> BUILD_TYPE
                            [] build_choice = "2" -> "Release"
                            [] build_choice = "3" -> "RelWithDebInfo"
                            [] build_choice = "4" -> "MinSizeRel"
                            [] OTHER -> "Debug")
        /\ AfterRead(build_choice, "compiler_choice")
    /\ UNCHANGED <<prompt_fixed, COMPILER, Action, CLEAN_BUILD, out>>

\* read -p "Enter choice (1-2) [1]: " compiler_choice, and the case after it.
ReadCompilerChoice ==
    /\ pc = "compiler_choice"
    /\ \E compiler_choice \in CompilerChoices \cup {EndOfInput} :
        /\ COMPILER' = (CASE compiler_choice = EndOfInput -> COMPILER
                          [] compiler_choice = "2" -> "clang"
                          [] OTHER -> "gcc")
        /\ AfterRead(compiler_choice, "action_choice")
    /\ UNCHANGED <<prompt_fixed, BUILD_TYPE, Action, CLEAN_BUILD, out>>

\* read -p "Enter choice (1-3) [2]: " action_choice, and the case after it.
ReadActionChoice ==
    /\ pc = "action_choice"
    /\ \E action_choice \in ActionChoices \cup {EndOfInput} :
        /\ Action' = (CASE action_choice = EndOfInput -> Action
                        [] action_choice = "1" -> "configure"
                        [] action_choice = "3" -> "test"
                        [] OTHER -> "configure_and_build")
        /\ AfterRead(action_choice, "clean_choice")
    /\ UNCHANGED <<prompt_fixed, BUILD_TYPE, COMPILER, CLEAN_BUILD, out>>

\* read -p "Clean build directory before starting? (y/N): " clean_choice; an
\* answer of y or Y turns cleaning on.
ReadCleanChoice ==
    /\ pc = "clean_choice"
    /\ \E clean_choice \in CleanChoices \cup {EndOfInput} :
        /\ CLEAN_BUILD' = (IF clean_choice \in {"y", "Y"} THEN TRUE ELSE CLEAN_BUILD)
        /\ AfterRead(clean_choice, "proceed")
    /\ UNCHANGED <<prompt_fixed, BUILD_TYPE, COMPILER, Action, out>>

\* read -p "Proceed with this configuration? (Y/n): " proceed; an answer of n
\* or N prints "Build cancelled." and ends the script with status 0.
ReadProceed ==
    /\ pc = "proceed"
    /\ \E proceed \in ProceedChoices \cup {EndOfInput} :
        IF proceed \in {"n", "N"}
        THEN out' = Append(out, "Build cancelled.") /\ GoOn(0, "detect")
        ELSE out' = out /\ AfterRead(proceed, "detect")
    /\ UNCHANGED <<prompt_fixed, BUILD_TYPE, COMPILER, Action, CLEAN_BUILD>>

\* build_macos.sh, the three lines after the option loop:
\*   [ "$XCODE_ONLY" = true ] && ACTION="xcode"
\*   [ "$GENERATE_XCODE" = true ] && [ "$ACTION" = "configure_and_build" ] && ACTION="xcode_build"
\*   [ "$ACTION" = "xcode" ] || [ "$ACTION" = "xcode_build" ] && GENERATE_XCODE=true
Normalise ==
    /\ pc = "normalise"
    /\ LET a1 == IF XCODE_ONLY THEN "xcode" ELSE Action
           a2 == IF GENERATE_XCODE /\ a1 = "configure_and_build" THEN "xcode_build" ELSE a1
       IN  /\ Action' = a2
           /\ GENERATE_XCODE' = (IF a2 \in {"xcode", "xcode_build"} THEN TRUE
                                 ELSE GENERATE_XCODE)
    /\ pc' = "detect"
    /\ UNCHANGED <<libvars, toolvars, inputs, JOBS, ARGS, BUILD_TYPE, COMPILER, CLEAN_BUILD,
                   INTERACTIVE_MODE, XCODE_ONLY, dir, steps, failed, out, exit_code>>

\* The compiler is looked at. build_linux.sh refuses a compiler other than gcc and
\* clang; build_windows.sh refuses to go on without cl or without cmake; the
\* other scripts only read a version (an empty one when the compiler is missing)
\* or pick a generator, and go on.
DetectCompiler ==
    /\ pc = "detect"
    /\ CASE script = LINUX /\ COMPILER \notin {"gcc", "clang"} ->
              /\ out' = Append(out, "Unsupported compiler")
              /\ GoOn(1, "dispatch")
         [] script = WINDOWS_SH /\ "cl" \notin env ->
              /\ out' = Append(out, "Error: Visual Studio compiler 'cl' not found in PATH")
              /\ GoOn(1, "dispatch")
         [] script = WINDOWS_SH /\ "cl" \in env /\ "cmake" \notin env ->
              /\ out' = Append(out, "Error: CMake not found in PATH")
              /\ GoOn(1, "dispatch")
         [] OTHER ->
              /\ out' = out
              /\ GoOn(-1, "dispatch")
    /\ UNCHANGED <<libvars, toolvars, inputs, JOBS, ARGS, settings, dir, steps, failed>>

\* clean_build / Clean-Build: rm -rf and mkdir -p (the PowerShell one removes
\* only a directory that is there).
CleanSteps(sc, d) ==
    IF sc = WINDOWS_PS1 /\ d = "absent" THEN <<"mkdir">> ELSE <<"rm", "mkdir">>

\* ensure_build_dir / Ensure-BuildDir: mkdir -p only when the directory is missing.
EnsureSteps(d) == IF d = "absent" THEN <<"mkdir">> ELSE <<>>

\* Variant with one slip, used to test the properties: clean_build without rm -rf.
DirAfterPrepare_keep(clean, d) == IF d = "absent" THEN "empty" ELSE d

\* The build directory after clean_build (clean) or ensure_build_dir (not clean):
\* emptied, created empty, or left as it is.
DirAfterPrepare(clean, d) == IF clean \/ d = "absent" THEN "empty" ELSE d

\* case $ACTION in / switch ($Action): a value with no branch prints the usage
\* and exits 1; every branch starts with clean_build or ensure_build_dir.
Dispatch ==
    /\ pc = "dispatch"
    /\ IF Plan(script, Action) = <<>>
       THEN /\ out' = Append(out, "Usage")
            /\ GoOn(1, "configure")
            /\ UNCHANGED <<dir, steps>>
       ELSE /\ steps' = steps \o (IF CLEAN_BUILD THEN CleanSteps(script, dir)
                                  ELSE EnsureSteps(dir))
            /\ dir' = DirAfterPrepare(CLEAN_BUILD, dir)
            /\ out' = out
            /\ GoOn(-1, "configure")
    /\ UNCHANGED <<libvars, toolvars, inputs, JOBS, ARGS, settings, failed>>

\* Where the script goes after step s of its action ended well (or, in the
\* PowerShell script, ended at all).
After(s) ==
    LET plan == Plan(script, Action)
        i == CHOOSE k \in 1..Len(plan) : plan[k] = s
    IN  IF i < Len(plan) THEN plan[i + 1] ELSE "banner"

\* Variant with one slip, used to test the properties: a script without
\* set -e, which goes on after a command that failed.
RunStep_goes_on(s, tool, ok, newdir) ==
    /\ steps' = Append(steps, s)
    /\ failed' = (IF ok THEN failed ELSE failed \cup {s})
    /\ dir' = (IF ok THEN newdir ELSE dir)
    /\ out' = out
    /\ GoOn(-1, After(s))

\* Program tool can be started with the PATH e; ctest is installed with cmake.
InPath(tool, e) == tool \in e \/ (tool = "ctest" /\ "cmake" \in e)

\* A step starts program tool; ok is how the program ends. The bash scripts stop
\* at a failing command (set -e, or || exit 1 in build_windows.sh); the
\* PowerShell script stops only when the program cannot be started, and goes
\* on after a program that ends with a non-zero status.
RunStep(s, tool, ok, newdir) ==
    /\ steps' = Append(steps, s)
    /\ failed' = (IF ok THEN failed ELSE failed \cup {s})
    /\ dir' = (IF ok THEN newdir ELSE dir)
    /\ CASE ok -> /\ out' = out
                  /\ GoOn(-1, After(s))
         [] ~ok /\ script = WINDOWS_PS1 /\ InPath(tool, env) ->
                  /\ out' = out
                  /\ GoOn(-1, After(s))
         [] ~ok /\ script = WINDOWS_PS1 /\ ~InPath(tool, env) ->
                  /\ out' = Append(out, "CommandNotFoundException")
                  /\ GoOn(1, After(s))
         [] ~ok /\ script = WINDOWS_SH /\ s \in {"configure", "build"} ->
                  /\ out' = Append(out, IF s = "configure"
                                        THEN "CMake configuration failed"
                                        ELSE "Build failed")
                  /\ GoOn(1, After(s))
         [] OTHER ->
                  /\ out' = out
                  /\ GoOn(IF tool = "cmake" /\ "cmake" \notin env THEN 127
                          ELSE FailStatus(tool), After(s))

\* configure_project / eval $CONFIGURE_CMD / Invoke-Expression $ConfigureCmd:
\* cmake runs in the build directory. It fails when cmake or the compiler it is
\* told to use is not found, and may fail for any other reason.
Configure ==
    /\ pc = "configure"
    /\ \E ok \in BOOLEAN :
        /\ ok => "cmake" \in env /\ CompilerFound(script, COMPILER, env)
        /\ RunStep("configure", "cmake", ok, "configured")
    /\ UNCHANGED <<libvars, toolvars, inputs, JOBS, ARGS, settings>>

\* build_project / eval $BUILD_CMD / Invoke-Expression $BuildCmd. There is
\* nothing to build in a directory that was never configured.
Build ==
    /\ pc = "build"
    /\ \E ok \in BOOLEAN :
        /\ ok => dir \in {"configured", "stale"}
        /\ ok /\ script \in {WINDOWS_SH, WINDOWS_PS1} => "cmake" \in env
        /\ RunStep("build", BuildTool(script, GENERATE_XCODE), ok, "built")
    /\ UNCHANGED <<libvars, toolvars, inputs, JOBS, ARGS, settings>>

\* run_tests / eval $TEST_CMD / Invoke-Expression $TestCmd.
Test ==
    /\ pc = "test"
    /\ \E ok \in BOOLEAN :
        /\ ok => dir \in {"built", "stale"}
        /\ ok /\ script = WINDOWS_PS1 => InPath("ctest", env)
        /\ RunStep("test", TestTool(script, GENERATE_XCODE), ok, dir)
    /\ UNCHANGED <<libvars, toolvars, inputs, JOBS, ARGS, settings>>

\* echo "=== Build completed successfully ===" and the end of the script.
Banner ==
    /\ pc = "banner"
    /\ out' = Append(out, "=== Build completed successfully ===")
    /\ GoOn(0, "exited")
    /\ UNCHANGED <<libvars, toolvars, inputs, JOBS, ARGS, settings, dir, steps, failed>>

Next ==
    \/ ParseJobs
    \/ ParseOptions
    \/ BindParameters
    \/ InteractiveMode
    \/ ReadBuildChoice
    \/ ReadCompilerChoice
    \/ ReadActionChoice
    \/ ReadCleanChoice
    \/ ReadProceed
    \/ Normalise
    \/ DetectCompiler
    \/ Dispatch
    \/ Configure
    \/ Build
    \/ Test
    \/ Banner

Spec == Init /\ [][Next]_vars

(***************************************************************************)
(*                             format.sh                                   *)
(***************************************************************************)

\* Bound of the format.sh model: the longest command line tried.
MaxFormatArgs == 2

FORMAT_SH == "format.sh"

\* The variables of a build-script run that format.sh and generate-docs.sh
\* do not have.
buildvars == <<dir0, dir, JOBS, ARGS, settings, steps, failed>>

BuildIdle ==
    /\ dir0 = "absent"
    /\ dir = "absent"
    /\ JOBS = ""
    /\ ARGS = <<>>
    /\ BUILD_TYPE = ""
    /\ Action = ""
    /\ COMPILER = ""
    /\ CLEAN_BUILD = FALSE
    /\ INTERACTIVE_MODE = FALSE
    /\ GENERATE_XCODE = FALSE
    /\ XCODE_ONLY = FALSE
    /\ steps = <<>>
    /\ failed = {}

\* PROJECT_ROOT="$(dirname "$SCRIPT_DIR")": where the checkout is.
PROJECT_ROOT == "/work/vnetemplate"

\* The files a checkout may hold, by their place under PROJECT_ROOT: sources
\* and headers in the source directories (one in a directory whose name has a
\* space), a text file, generated and third-party sources, and a source in a
\* directory of its own.
SourceFiles ==
    {"/src/template.cpp", "/include/vertexnova/template/template.h",
     "/examples/hello world/main.cpp", "/tools/gen.c"}
OtherFiles ==
    {"/tests/notes.md", "/build/Debug/gen.cpp", "/third_party/_deps/fmt/fmt.hpp",
     "/deps/internal/vnecommon/common.h"}

FormatPaths == {PROJECT_ROOT \o r : r \in SourceFiles \cup OtherFiles}

\* A file is absent, or is there and equal to its clang-format output
\* ("formatted") or not ("unformatted").
Trees ==
    {t \in [FormatPaths -> {"absent", "formatted", "unformatted"}] :
        \A r \in OtherFiles : t[PROJECT_ROOT \o r] # "formatted"}

FormatWords == {"-check", "--check", "-h", "--bogus"}
FormatArgvs == UNION {[1..n -> FormatWords] : n \in 0..MaxFormatArgs}

\* find -name "*<x>": the name ends with x.
HasSuffix(s, x) == Len(s) >= Len(x) /\ SubSeq(s, Len(s) - Len(x) + 1, Len(s)) = x

\* find -path "*<x>*": the path holds x.
Contains(s, x) == \E i \in 1..(Len(s) - Len(x) + 1) : SubSeq(s, i, i + Len(x) - 1) = x

\* find "$PROJECT_ROOT" -type f \( -name "*.cpp" -o -name "*.c" -o -name "*.h"
\*   -o -name "*.hpp" \) -not -path "*/build/*" -not -path "*/_deps/*"
\*   -not -path "*/deps/*"
Find(t) ==
    {q \in DOMAIN t :
        /\ t[q] # "absent"
        /\ \E x \in {".cpp", ".c", ".h", ".hpp"} : HasSuffix(q, x)
        /\ \A d \in {"/build/", "/_deps/", "/deps/"} : ~Contains(q, d)}

\* The words the shell makes of one line of $SOURCES in  for f in $SOURCES
\* (the variable is not quoted: the line is split at spaces).
RECURSIVE Split(_, _)
Split(s, word) ==
    IF s = "" THEN (IF word = "" THEN <<>> ELSE <<word>>)
    ELSE IF SubSeq(s, 1, 1) = " "
    THEN (IF word = "" THEN <<>> ELSE <<word>>) \o Split(SubSeq(s, 2, Len(s)), "")
    ELSE Split(SubSeq(s, 2, Len(s)), word \o SubSeq(s, 1, 1))

\* The option loop of format.sh.
RECURSIVE FormatOptions(_, _)
FormatOptions(args, check) ==
    IF args = <<>> THEN [CHECK_ONLY |-> check, code |-> -1, out |-> <<>>]
    ELSE CASE Head(args) \in {"-check", "--check"} -> FormatOptions(Tail(args), TRUE)
           [] Head(args) \in {"-h", "--help"} ->
                [CHECK_ONLY |-> check, code |-> 0, out |-> <<"Usage">>]
           [] OTHER -> [CHECK_ONLY |-> check, code |-> 1, out |-> <<"Unknown option">>]

\* format.sh is started in a checkout, with or without clang-format in PATH.
FormatInit ==
    /\ LibIdle
    /\ BuildIdle
    /\ DocIdle
    /\ ExIdle
    /\ script = FORMAT_SH
    /\ argv \in FormatArgvs
    /\ env \in SUBSET {"clang-format"}
    /\ pc = "start"
    /\ out = <<>>
    /\ exit_code = -1
    /\ tree0 \in Trees
    /\ tree = tree0
    /\ CHECK_ONLY = FALSE
    /\ SOURCES = {}
    /\ examined = {}
    /\ rewritten = {}

\* CHECK_ONLY=false and the option loop.
FormatParse ==
    /\ script = FORMAT_SH
    /\ pc = "start"
    /\ LET r == FormatOptions(argv, FALSE) IN
        /\ CHECK_ONLY' = r.CHECK_ONLY
        /\ out' = out \o r.out
        /\ GoOn(r.code, "tool")
    /\ UNCHANGED <<libvars, buildvars, docvars, exvars, script, argv, env, tree0, tree, SOURCES, examined,
                   rewritten>>

\* if ! command -v clang-format
FormatTool ==
    /\ script = FORMAT_SH
    /\ pc = "tool"
    /\ IF "clang-format" \in env
       THEN out' = out /\ GoOn(-1, "find")
       ELSE out' = Append(out, "clang-format not found.") /\ GoOn(1, "find")
    /\ UNCHANGED <<libvars, buildvars, docvars, exvars, script, argv, env, fmtvars>>

\* SOURCES=$(find ...) and the test for an empty list.
FormatFind ==
    /\ script = FORMAT_SH
    /\ pc = "find"
    /\ SOURCES' = Find(tree)
    /\ IF Find(tree) = {}
       THEN out' = Append(out, "No C/C++ sources found to format.") /\ GoOn(0, "loop")
       ELSE out' = out /\ GoOn(-1, IF CHECK_ONLY THEN "check" ELSE "rewrite")
    /\ UNCHANGED <<libvars, buildvars, docvars, exvars, script, argv, env, tree0, tree, CHECK_ONLY,
                   examined, rewritten>>

\* The lines of $SOURCES the shell hands to the loop as one word each, and
\* those it splits.
Whole == {q \in SOURCES : Split(q, "") = <<q>>}
Broken == SOURCES \ Whole

\* The check loop: clang-format "$f" > "$TMP"; diff -q "$f" "$TMP". find prints
\* the files in no promised order. A line that was split gives words that name
\* no file: clang-format fails on the first of them and set -e ends the script
\* with its status, after the files that came earlier were examined.
FormatCheck ==
    /\ script = FORMAT_SH
    /\ pc = "check"
    /\ IF Broken = {}
       THEN /\ examined' = examined \cup SOURCES
            /\ IF \E f \in SOURCES : tree[f] = "unformatted"
               THEN /\ out' = Append(out, "The following files are not formatted")
                    /\ GoOn(1, "exited")
               ELSE /\ out' = Append(out, "Format check passed.")
                    /\ GoOn(0, "exited")
       ELSE \E q \in Broken, before \in SUBSET Whole :
            /\ examined' = examined \cup before \cup {Head(Split(q, ""))}
            /\ out' = out
            /\ GoOn(1, "exited")
    /\ UNCHANGED <<libvars, buildvars, docvars, exvars, script, argv, env, tree0, tree, CHECK_ONLY, SOURCES,
                   rewritten>>

\* The rewrite loop: clang-format -i "$f"; it ends the same way at a word that
\* names no file.
FormatRewrite ==
    /\ script = FORMAT_SH
    /\ pc = "rewrite"
    /\ IF Broken = {}
       THEN /\ examined' = examined \cup SOURCES
            /\ rewritten' = rewritten \cup SOURCES
            /\ tree' = [q \in DOMAIN tree |-> IF q \in SOURCES THEN "formatted" ELSE tree[q]]
            /\ out' = out \o <<"Formatting C/C++ sources...", "Done.">>
            /\ GoOn(0, "exited")
       ELSE \E q \in Broken, before \in SUBSET Whole :
            /\ examined' = examined \cup before \cup {Head(Split(q, ""))}
            /\ rewritten' = rewritten \cup before
            /\ tree' = [p \in DOMAIN tree |-> IF p \in before THEN "formatted" ELSE tree[p]]
            /\ out' = Append(out, "Formatting C/C++ sources...")
            /\ GoOn(1, "exited")
    /\ UNCHANGED <<libvars, buildvars, docvars, exvars, script, argv, env, tree0, CHECK_ONLY, SOURCES>>

FormatNext ==
    \/ FormatParse
    \/ FormatTool
    \/ FormatFind
    \/ FormatCheck
    \/ FormatRewrite

FormatSpec == FormatInit /\ [][FormatNext]_vars

(***************************************************************************)
(*                          generate-docs.sh                               *)
(***************************************************************************)

\* Bound of the generate-docs.sh model: the longest command line tried.
MaxDocsArgs == 2

GENERATE_DOCS_SH == "generate-docs.sh"

DocsWords == {"--help", "-h", "--api-only", "--validate", "--bogus"}
DocsArgvs == UNION {[1..n -> DocsWords] : n \in 0..MaxDocsArgs}

\* What the script looks at in the checkout: CMakeLists.txt at the root; the
\* docs directory (absent, without a markdown file, with one); README.md and
\* examples/README.md; and the sources under include and src (none, mostly
\* without Doxygen comments, mostly with).
Projects ==
    [cmakelists : BOOLEAN, docs : {"absent", "empty", "md"}, readme : BOOLEAN,
     examples_readme : BOOLEAN, sources : {"none", "undocumented", "documented"}]

DocsTools == {"cmake", "doxygen", "markdown-link-check"}

\* "${1:-}"
FirstArg(args) == IF args = <<>> THEN "" ELSE args[1]

\* case "${1:-}" in ... and main(): the functions called for a first argument,
\* in order; main calls validate_links only if [[ -d "$DOCS_DIR" ]].
DocsPlan(arg, docs) ==
    CASE arg = "--api-only" -> <<"check_prerequisites", "generate_api_docs">>
      [] arg = "--validate" -> <<"check_prerequisites", "validate_links",
                                 "generate_coverage_report">>
      [] arg = "" -> <<"check_prerequisites", "generate_api_docs">>
                     \o (IF docs # "absent" THEN <<"validate_links">> ELSE <<>>)
                     \o <<"generate_coverage_report">>
      [] OTHER -> <<>>

\* Variant with one slip, used to test the properties: check_prerequisites
\* without the test for cmake.
Prerequisite_no_cmake(p, tools) ==
    IF ~p.cmakelists THEN "Not in VneTemplate project root."
    ELSE ""

\* The first two tests of check_prerequisites: the error it stops with, or "".
Prerequisite(p, tools) ==
    IF ~p.cmakelists THEN "Not in VneTemplate project root."
    ELSE IF "cmake" \notin tools THEN "CMake not found."
    ELSE ""

\* The files validate_links hands to markdown-link-check, in order.
LinkFiles(p) ==
    (IF p.docs = "md" THEN <<"docs/guide.md">> ELSE <<>>)
    \o (IF p.readme THEN <<"README.md">> ELSE <<>>)
    \o (IF p.examples_readme THEN <<"examples/README.md">> ELSE <<>>)

DocsInit ==
    /\ LibIdle
    /\ FmtIdle
    /\ ExIdle
    /\ script = GENERATE_DOCS_SH
    /\ argv \in DocsArgvs
    /\ env \in SUBSET DocsTools
    /\ project \in Projects
    /\ dir0 \in {"absent", "stale"}
    /\ dir = dir0
    /\ pc = "start"
    /\ JOBS = ""
    /\ ARGS = <<>>
    /\ BUILD_TYPE = ""
    /\ Action = ""
    /\ COMPILER = ""
    /\ CLEAN_BUILD = FALSE
    /\ INTERACTIVE_MODE = FALSE
    /\ GENERATE_XCODE = FALSE
    /\ XCODE_ONLY = FALSE
    /\ steps = <<>>
    /\ failed = {}
    /\ out = <<>>
    /\ exit_code = -1
    /\ DOXYGEN_AVAILABLE = ""
    /\ LINK_CHECK_AVAILABLE = ""
    /\ phases = <<>>

\* What a run of generate-docs.sh never changes.
docsfixed == <<libvars, fmtvars, exvars, script, argv, env, project, dir0, JOBS, ARGS, settings>>

\* The function called after function f, or "end" after the last one.
DocsAfter(f) ==
    LET plan == DocsPlan(FirstArg(argv), project.docs)
        i == CHOOSE k \in 1..Len(plan) : plan[k] = f
    IN  IF i < Len(plan) THEN plan[i + 1] ELSE "end"

\* The case statement at the end of the script: help, an unknown option, or
\* the first function of the mode.
DocsStart ==
    /\ script = GENERATE_DOCS_SH
    /\ pc = "start"
    /\ LET arg == FirstArg(argv) IN
       CASE arg \in {"--help", "-h"} ->
              out' = Append(out, "Usage") /\ GoOn(0, "end")
         [] DocsPlan(arg, project.docs) = <<>> ->
              out' = out \o <<"Unknown option", "Usage">> /\ GoOn(1, "end")
         [] arg = "" ->
              /\ out' = Append(out, "Starting VneTemplate documentation generation...")
              /\ GoOn(-1, "check_prerequisites")
         [] OTHER ->
              out' = out /\ GoOn(-1, "check_prerequisites")
    /\ UNCHANGED <<docsfixed, dir, steps, failed, DOXYGEN_AVAILABLE, LINK_CHECK_AVAILABLE,
                   phases>>

\* check_prerequisites
CheckPrerequisites ==
    /\ script = GENERATE_DOCS_SH
    /\ pc = "check_prerequisites"
    /\ phases' = Append(phases, "check_prerequisites")
    /\ IF Prerequisite(project, env) # ""
       THEN /\ out' = out \o <<"Checking prerequisites...", Prerequisite(project, env)>>
            /\ GoOn(1, "end")
            /\ UNCHANGED <<DOXYGEN_AVAILABLE, LINK_CHECK_AVAILABLE>>
       ELSE /\ DOXYGEN_AVAILABLE' = (IF "doxygen" \in env THEN "true" ELSE "false")
            /\ LINK_CHECK_AVAILABLE' =
                   (IF "markdown-link-check" \in env THEN "true" ELSE "false")
            /\ out' = out \o <<"Checking prerequisites...">>
                   \o (IF "doxygen" \in env THEN <<>> ELSE <<"Doxygen not found.">>)
                   \o (IF "markdown-link-check" \in env THEN <<>>
                       ELSE <<"markdown-link-check not found.">>)
                   \o <<"Prerequisites check completed">>
            /\ GoOn(-1, DocsAfter("check_prerequisites"))
    /\ UNCHANGED <<docsfixed, dir, steps, failed>>

\* generate_api_docs: mkdir -p "$BUILD_DIR", cmake -DENABLE_DOXYGEN=ON ..,
\* cmake --build . --target VneTemplate_doc_doxygen; a cmake that fails ends
\* the script (set -e); then index.html is looked for.
GenerateApiDocs ==
    /\ script = GENERATE_DOCS_SH
    /\ pc = "generate_api_docs"
    /\ phases' = Append(phases, "generate_api_docs")
    /\ IF DOXYGEN_AVAILABLE = "false"
       THEN /\ out' = Append(out, "Skipping API documentation generation")
            /\ GoOn(-1, DocsAfter("generate_api_docs"))
            /\ UNCHANGED <<dir, steps, failed>>
       ELSE \E outcome \in {"configure fails", "build fails", "no index.html", "index.html"} :
            /\ dir' = (IF outcome = "configure fails"
                       THEN (IF dir = "absent" THEN "empty" ELSE dir)
                       ELSE "configured")
            /\ steps' = steps \o <<"mkdir", "cmake -DENABLE_DOXYGEN=ON">>
                        \o (IF outcome = "configure fails" THEN <<>> ELSE <<"cmake --build">>)
            /\ failed' = failed \cup
                         (CASE outcome = "configure fails" -> {"cmake -DENABLE_DOXYGEN=ON"}
                            [] outcome = "build fails" -> {"cmake --build"}
                            [] OTHER -> {})
            /\ out' = out \o <<"Generating API documentation (via CMake)...">>
                      \o (CASE outcome = "index.html" ->
                                  <<"API documentation generated successfully">>
                            [] outcome = "no index.html" ->
                                  <<"API documentation may have failed">>
                            [] OTHER -> <<>>)
            /\ GoOn(IF outcome \in {"configure fails", "build fails"} THEN 1 ELSE -1,
                    DocsAfter("generate_api_docs"))
    /\ UNCHANGED <<docsfixed, DOXYGEN_AVAILABLE, LINK_CHECK_AVAILABLE>>

\* validate_links: markdown-link-check on each markdown file of docs/, on
\* README.md and on examples/README.md; return 1 when a file has broken links,
\* which ends the script (set -e).
ValidateLinks ==
    /\ script = GENERATE_DOCS_SH
    /\ pc = "validate_links"
    /\ phases' = Append(phases, "validate_links")
    /\ IF LINK_CHECK_AVAILABLE = "false"
       THEN /\ out' = Append(out, "Skipping link validation")
            /\ GoOn(-1, DocsAfter("validate_links"))
            /\ UNCHANGED <<steps, failed>>
       ELSE \E broken \in SUBSET {LinkFiles(project)[k] : k \in DOMAIN LinkFiles(project)} :
            /\ steps' = steps \o [k \in DOMAIN LinkFiles(project) |-> "markdown-link-check"]
            /\ failed' = failed \cup (IF broken = {} THEN {} ELSE {"markdown-link-check"})
            /\ out' = out \o <<"Validating documentation links...",
                               IF broken = {} THEN "All documentation links are valid"
                               ELSE "Found files with broken links">>
            /\ GoOn(IF broken = {} THEN -1 ELSE 1, DocsAfter("validate_links"))
    /\ UNCHANGED <<docsfixed, dir, DOXYGEN_AVAILABLE, LINK_CHECK_AVAILABLE>>

\* generate_coverage_report: counts the sources under include and src that hold
\* a Doxygen tag; it only reports.
GenerateCoverageReport ==
    /\ script = GENERATE_DOCS_SH
    /\ pc = "generate_coverage_report"
    /\ phases' = Append(phases, "generate_coverage_report")
    /\ out' = out \o <<"Generating documentation coverage report...",
                       CASE project.sources = "none" -> "No source files found to analyze"
                         [] project.sources = "undocumented" ->
                              "Documentation coverage is below 80%"
                         [] OTHER -> "Documentation coverage is acceptable">>
    /\ GoOn(-1, DocsAfter("generate_coverage_report"))
    /\ UNCHANGED <<docsfixed, dir, steps, failed, DOXYGEN_AVAILABLE, LINK_CHECK_AVAILABLE>>

\* The end of the script: main prints its last line; the status is 0.
DocsEnd ==
    /\ script = GENERATE_DOCS_SH
    /\ pc = "end"
    /\ out' = (IF FirstArg(argv) = ""
               THEN Append(out, "Documentation generation completed successfully!")
               ELSE out)
    /\ GoOn(0, "exited")
    /\ UNCHANGED <<docsfixed, dir, steps, failed, docvars>>

DocsNext ==
    \/ DocsStart
    \/ CheckPrerequisites
    \/ GenerateApiDocs
    \/ ValidateLinks
    \/ GenerateCoverageReport
    \/ DocsEnd

DocsSpec == DocsInit /\ [][DocsNext]_vars

(***************************************************************************)
(*              LoggingGuard and the example program                       *)
(***************************************************************************)

\* Bound of the example model: the longest function body tried, its return
\* statement not counted.
MaxStatements == 3

\* The statements of main.cpp, and the block braces.
DECLARE_GUARD == "LoggingGuard logging_guard;"
LOG_HELLO == "VNE_LOG_INFO << hello();"
LOG_VERSION == "VNE_LOG_INFO << \"Version: \" << get_version();"
RETURN_0 == "return 0;"
OPEN == "{"
CLOSE == "}"

\* Statements that need the copy constructor or the copy assignment.
COPY_CONSTRUCT == "LoggingGuard copy(logging_guard);"
COPY_ASSIGN == "other_guard = logging_guard;"

\* int main() { ... } of 01_hello_template
MainBody == <<DECLARE_GUARD, LOG_HELLO, LOG_VERSION, RETURN_0>>

\* LoggingGuard(const LoggingGuard&) = delete; and operator= likewise: a body
\* that copies a guard is ill-formed.
Compiles(body) ==
    \A k \in DOMAIN body : body[k] \notin {COPY_CONSTRUCT, COPY_ASSIGN}

\* The braces of a body match: depth d never goes below zero and ends at zero.
RECURSIVE Balanced(_, _)
Balanced(body, d) ==
    IF body = <<>> THEN d = 0
    ELSE CASE Head(body) = OPEN -> Balanced(Tail(body), d + 1)
           [] Head(body) = CLOSE -> d > 0 /\ Balanced(Tail(body), d - 1)
           [] OTHER -> Balanced(Tail(body), d)

\* The function bodies tried: the statements of main.cpp in any order and
\* number, with blocks, then return 0; main's own body is one of them.
Bodies ==
    {Append(b, RETURN_0) :
        b \in {c \in UNION {[1..n -> {DECLARE_GUARD, LOG_HELLO, LOG_VERSION, OPEN, CLOSE,
                                      COPY_CONSTRUCT, COPY_ASSIGN}] :
                            n \in 0..MaxStatements} : Balanced(c, 0)}}

Programs == {b \in Bodies : Compiles(b)}

\* A call into the logging library: its name, the configuration passed, the
\* text logged.
NoConfig == [name |-> "", sink |-> "", console_pattern |-> "", log_level |-> "", async |-> FALSE]
LogCall(c, cfg, txt) == [call |-> c, config |-> cfg, text |-> txt]

\* Variant with one slip, used to test the properties: a destructor that
\* leaves logging running.
LoggingGuard_dtor_empty(calls) == calls

\* LoggingGuard() { ...; vne::log::Logging::configureLogger(config); }
LoggingGuard_ctor(calls) ==
    Append(calls, LogCall("configureLogger",
                          [name |-> "kDefaultLoggerName", sink |-> "eConsole",
                           console_pattern |-> "[%l] [%n] %v", log_level |-> "eInfo",
                           async |-> FALSE], ""))

\* ~LoggingGuard() { vne::log::Logging::shutdown(); }
LoggingGuard_dtor(calls) == Append(calls, LogCall("shutdown", NoConfig, ""))

\* The destructors of the n guards of a scope that is left.
RECURSIVE Destroy(_, _)
Destroy(n, calls) == IF n = 0 THEN calls ELSE Destroy(n - 1, LoggingGuard_dtor(calls))

\* The destructors of the guards of all the scopes, the innermost first.
RECURSIVE Unwind(_, _)
Unwind(scopes, calls) ==
    IF scopes = <<>> THEN calls
    ELSE Unwind(SubSeq(scopes, 1, Len(scopes) - 1), Destroy(scopes[Len(scopes)], calls))

\* The program is started: a build of the library with its version text, no
\* logging call made yet, the scope of the function body entered.
ExampleInit ==
    /\ PROJECT_VERSION \in VersionTexts
    /\ mem = ImageOf(PROJECT_VERSION)
    /\ pc_t = <<>>
    /\ ret = <<>>
    /\ ncalls = <<>>
    /\ observed = <<>>
    /\ RunIdle
    /\ FmtIdle
    /\ DocIdle
    /\ program \in Programs
    /\ ip = 1
    /\ live = <<0>>
    /\ log_calls = <<>>
    /\ main_ret = -1

Running == program # <<>> /\ main_ret = -1 /\ ip \in DOMAIN program

exfixed == <<PROJECT_VERSION, pc_t, ret, ncalls, observed, runvars, fmtvars, docvars, program>>

\* vne::template_ns::examples::LoggingGuard logging_guard;
DeclareGuard ==
    /\ Running
    /\ program[ip] = DECLARE_GUARD
    /\ log_calls' = LoggingGuard_ctor(log_calls)
    /\ live' = [live EXCEPT ![Len(live)] = @ + 1]
    /\ ip' = ip + 1
    /\ UNCHANGED <<exfixed, mem, main_ret>>

\* VNE_LOG_INFO << hello();
LogHello ==
    /\ Running
    /\ program[ip] = LOG_HELLO
    /\ LET r == hello(mem) IN
        /\ mem' = r.mem
        /\ log_calls' = Append(log_calls, LogCall("VNE_LOG_INFO", NoConfig, r.mem[r.ptr]))
    /\ ip' = ip + 1
    /\ UNCHANGED <<exfixed, live, main_ret>>

\* VNE_LOG_INFO << "Version: " << get_version();
LogVersion ==
    /\ Running
    /\ program[ip] = LOG_VERSION
    /\ LET r == get_version(mem) IN
        /\ mem' = r.mem
        /\ log_calls' = Append(log_calls,
                               LogCall("VNE_LOG_INFO", NoConfig, "Version: " \o r.mem[r.ptr]))
    /\ ip' = ip + 1
    /\ UNCHANGED <<exfixed, live, main_ret>>

\* {
OpenBlock ==
    /\ Running
    /\ program[ip] = OPEN
    /\ live' = Append(live, 0)
    /\ ip' = ip + 1
    /\ UNCHANGED <<exfixed, mem, log_calls, main_ret>>

\* }: the guards of the block are destroyed.
CloseBlock ==
    /\ Running
    /\ program[ip] = CLOSE
    /\ log_calls' = Destroy(live[Len(live)], log_calls)
    /\ live' = SubSeq(live, 1, Len(live) - 1)
    /\ ip' = ip + 1
    /\ UNCHANGED <<exfixed, mem, main_ret>>

\* return 0;: the guards of every scope are destroyed, main returns 0.
Return0 ==
    /\ Running
    /\ program[ip] = RETURN_0
    /\ log_calls' = Unwind(live, log_calls)
    /\ live' = <<>>
    /\ main_ret' = 0
    /\ ip' = ip + 1
    /\ UNCHANGED <<exfixed, mem>>

ExampleNext ==
    \/ DeclareGuard
    \/ LogHello
    \/ LogVersion
    \/ OpenBlock
    \/ CloseBlock
    \/ Return0

ExampleSpec == ExampleInit /\ [][ExampleNext]_vars


(***************************************************************************)
(*                    PROPERTIES OF THE LIBRARY                            *)
(***************************************************************************)

\* What thread t's last returned call handed back, as the caller reads it.
Returned(t) == IF ret[t].ptr = nullptr THEN nullptr ELSE Str(ret[t].ptr)

\* C1: every call of hello(), whatever was called before it and by whom, returns
\* a non-null pointer to exactly "Hello from VneTemplate".
C1_HelloReturnsGreeting ==
    /\ \A t \in Threads :
          ret[t].fn = "hello" =>
              /\ ret[t].ptr # nullptr
              /\ Str(ret[t].ptr) = "Hello from VneTemplate"
    /\ observed["hello"] \subseteq {"Hello from VneTemplate"}

\* A thread's second call was hello() and it has returned.
C1_Witness ==
    \E t \in Threads :
        /\ ret[t].fn = "hello" /\ pc_t[t] = "idle" /\ ncalls[t] = MaxCalls
        /\ observed["get_version"] # {}

\* C2: every call of get_version() returns a non-null pointer to a non-empty
\* string, in every build (every configured version text).
C2_VersionNonNullNonEmpty ==
    /\ \A t \in Threads :
          ret[t].fn = "get_version" =>
              /\ ret[t].ptr # nullptr
              /\ Str(ret[t].ptr) # ""
              /\ Len(Str(ret[t].ptr)) > 0
    /\ nullptr \notin observed["get_version"]
    /\ "" \notin observed["get_version"]

\* get_version() has returned in a build whose version is not the default one.
C2_Witness ==
    \E t \in Threads :
        /\ ret[t].fn = "get_version" /\ pc_t[t] = "idle"
        /\ PROJECT_VERSION = "10.20.30"

\* C3: get_version() returns exactly the configured PROJECT_VERSION; a call
\* inside get_version() can always return (no failure outcome), and no call
\* has ever returned anything else.
C3_VersionIsConfigured ==
    /\ \A t \in Threads :
          /\ ret[t].fn = "get_version" => Returned(t) = PROJECT_VERSION
          /\ pc_t[t] = "get_version" => ENABLED Return(t)
    /\ observed["get_version"] \subseteq {PROJECT_VERSION}

\* Both threads have called get_version() and got its value.
C3_Witness ==
    /\ \A t \in Threads : ret[t].fn = "get_version" /\ ncalls[t] = MaxCalls
    /\ observed["get_version"] = {PROJECT_VERSION}

\* C4: determinism and purity. Each function has returned at most one value over
\* all its calls, that value is the one the build's image fixes (so two
\* executions of the same build agree call by call), and the storage the
\* functions can reach is still the image the build started with.
C4_DeterministicAndPure ==
    /\ \A f \in Functions : Cardinality(observed[f]) <= 1
    /\ observed["hello"] \subseteq {ImageOf(PROJECT_VERSION)[ADDR_HELLO]}
    /\ observed["get_version"] \subseteq {ImageOf(PROJECT_VERSION)[ADDR_VERSION]}
    /\ mem = ImageOf(PROJECT_VERSION)

\* Both functions have been called twice or more in all, in both orders.
C4_Witness ==
    /\ \A f \in Functions : observed[f] # {}
    /\ ret[1].fn = "hello" /\ ret[2].fn = "get_version"
    /\ \A t \in Threads : ncalls[t] = MaxCalls /\ pc_t[t] = "idle"

\* The value f returns when it is the only call the program ever makes.
AloneValue(f) ==
    LET r == Body(f, ImageOf(PROJECT_VERSION)) IN
    IF r.ptr = nullptr THEN nullptr ELSE r.mem[r.ptr]

\* With threads calling concurrently, in every interleaving a thread inside a
\* call can take its step (nothing blocks it) and every returned value is the one
\* the function returns when called alone.
C5_Interleavings ==
    /\ \A t \in Threads :
          /\ pc_t[t] \in Functions => ENABLED Return(t)
          /\ ret[t].fn \in Functions => Returned(t) = AloneValue(ret[t].fn)
    /\ \A f \in Functions : observed[f] \subseteq {AloneValue(f)}

\* C5: the above in every reachable state, and no step writes the storage the
\* threads share.
C5_ThreadSafe == []C5_Interleavings /\ [][mem' = mem]_vars

\* Two threads are inside calls at once, one of them in its second call, after
\* each function has already returned once.
C5_Witness ==
    /\ pc_t[1] = "hello" /\ pc_t[2] = "get_version"
    /\ ncalls[2] = MaxCalls
    /\ ret[2].fn = "hello" /\ ret[1].fn = "none"

(***************************************************************************)
(*                 PROPERTIES OF THE BUILD SCRIPTS                         *)
(***************************************************************************)

\* The options the usage text (the param block) of a script lists.
ValueOptions(sc) ==
    IF sc = WINDOWS_PS1 THEN {"-BuildType", "-Action", "-Jobs"}
    ELSE {"-t", "--build-type", "-a", "--action", "-j", "--jobs"}
         \cup (IF sc = LINUX THEN {"-c", "--compiler"} ELSE {})

PlainOptions(sc) ==
    IF sc = WINDOWS_PS1 THEN {"-Clean"}
    ELSE {"-clean", "--clean", "-h", "--help"}
         \cup (IF sc \in {LINUX, MACOS, WINDOWS_SH}
               THEN {"-interactive", "--interactive"} ELSE {})
         \cup (IF sc \in {MACOS, MACOS_MIN} THEN {"-xcode", "--xcode"} ELSE {})
         \cup (IF sc = MACOS THEN {"-xcode-only", "--xcode-only"} ELSE {})

ActionOptions == {"-a", "--action", "-Action"}

\* The actions the usage text (the ValidateSet) of a script lists.
ListedActions(sc) ==
    {"configure", "build", "configure_and_build", "test"}
    \cup (IF sc = MACOS THEN {"xcode", "xcode_build"} ELSE {})

\* The command line holds an invalid flag: read left to right, an option with a
\* value taking the next word, it has a word in option position that starts with
\* "-" and is no option of the script, or an action option whose value is not a
\* listed action.
RECURSIVE HasInvalidFlag(_, _)
HasInvalidFlag(sc, args) ==
    IF args = <<>> THEN FALSE
    ELSE LET a == Head(args) IN
         IF a \in ValueOptions(sc)
         THEN /\ Len(args) >= 2
              /\ \/ a \in ActionOptions /\ args[2] \notin ListedActions(sc)
                 \/ HasInvalidFlag(sc, SubSeq(args, 3, Len(args)))
         ELSE IF a \in PlainOptions(sc) \/ (sc # WINDOWS_PS1 /\ StartsWithDashJ(a))
         THEN HasInvalidFlag(sc, Tail(args))
         ELSE IsParameterWord(a) \/ HasInvalidFlag(sc, Tail(args))

BannerLine == "=== Build completed successfully ==="

\* C6: a script given an invalid flag (and not asked to prompt for the options
\* instead) runs no configure, build or test step, neither removes nor creates
\* the build directory, and exits with a non-zero status.
C6_InvalidFlagRejected ==
    (script \in Scripts /\ HasInvalidFlag(script, argv)
        /\ "-interactive" \notin {argv[i] : i \in DOMAIN argv})
    => /\ steps = <<>>
       /\ dir = dir0
       /\ pc = "exited" => exit_code # 0

\* C7: a script whose compiler is missing (and that was not cancelled at the
\* prompt) never prints the success banner and exits with a non-zero status.
C7_MissingCompilerFails ==
    (script \in Scripts /\ NeededCompiler(script, COMPILER) \notin env
        /\ VISUAL_STUDIO \notin env
        /\ "Build cancelled." \notin {out[i] : i \in DOMAIN out})
    => /\ BannerLine \notin {out[i] : i \in DOMAIN out}
       /\ pc = "exited" => exit_code # 0

\* The words that give a job count: -j, --jobs (the count is the next word) and
\* -jN (the count is what follows -j).
JobsWord(w) == w \in {"-j", "--jobs"} \/ (Len(w) > 2 /\ SubSeq(w, 1, 2) = "-j")

JobsPositions(args) == {i \in DOMAIN args : JobsWord(args[i])}

\* The count a jobs word at position i gives, "" when it is missing.
JobsGiven(args, i) ==
    IF args[i] \in {"-j", "--jobs"}
    THEN IF i < Len(args) THEN args[i + 1] ELSE ""
    ELSE SubSeq(args[i], 3, Len(args[i]))

\* A non-empty string of decimal digits.
DecimalNumber(v) ==
    /\ v # ""
    /\ \A k \in 1..Len(v) : \E d \in 0..9 : SubSeq(v, k, k) = ToString(d)

\* C11: in a bash build script, once the jobs loop is over, the job count is 10
\* when no jobs flag was given; a single jobs flag "-j N", "--jobs N" or "-jN",
\* at any position, with N a non-empty string of digits makes the job count N;
\* with N missing or not all digits the script has printed the invalid-jobs
\* message and exited with status 1, no step run and the build directory as it
\* was.
C11_JobsFlag ==
    (script \in BashScripts /\ pc # "start") =>
        LET P == JobsPositions(argv) IN
        /\ P = {} => JOBS = "10"
        /\ Cardinality(P) = 1 =>
              LET v == JobsGiven(argv, CHOOSE i \in P : TRUE) IN
              IF DecimalNumber(v)
              THEN JOBS = v
              ELSE /\ pc = "exited" /\ exit_code = 1
                   /\ "Invalid jobs" \in {out[k] : k \in DOMAIN out}
                   /\ steps = <<>> /\ dir = dir0

\* A script given -j8 after another option is building with 8 jobs.
C11_Witness ==
    /\ script \in BashScripts /\ Len(argv) = 2 /\ argv[2] = "-j8" /\ argv[1] = "-clean"
    /\ JOBS = "8" /\ pc = "build" /\ "rm" \in {steps[k] : k \in DOMAIN steps}

\* The script is past its option handling and uses the settings.
Using == pc \in {"detect", "dispatch", "configure", "build", "test", "banner"}

BuildTypeOption(sc) == IF sc = WINDOWS_PS1 THEN "-BuildType" ELSE "-t"
ActionOption(sc) == IF sc = WINDOWS_PS1 THEN "-Action" ELSE "-a"
JobsOption(sc) == IF sc = WINDOWS_PS1 THEN "-Jobs" ELSE "-j"
CleanOption(sc) == IF sc = WINDOWS_PS1 THEN "-Clean" ELSE "-clean"

\* C8: run with no arguments a script uses Debug, configure_and_build, 10 jobs
\* and no cleaning; run with one of the four flags alone it uses the value given
\* for that setting and the defaults for the other three.
C8_DefaultsAndFlags ==
    (script \in Scripts /\ Using) =>
        /\ argv = <<>> =>
              /\ BUILD_TYPE = "Debug" /\ Action = "configure_and_build"
              /\ JOBS = "10" /\ CLEAN_BUILD = FALSE
        /\ (Len(argv) = 2 /\ argv[1] = BuildTypeOption(script)) =>
              /\ BUILD_TYPE = argv[2] /\ Action = "configure_and_build"
              /\ JOBS = "10" /\ CLEAN_BUILD = FALSE
        /\ (Len(argv) = 2 /\ argv[1] = ActionOption(script)) =>
              /\ BUILD_TYPE = "Debug" /\ Action = argv[2]
              /\ JOBS = "10" /\ CLEAN_BUILD = FALSE
        /\ (Len(argv) = 2 /\ argv[1] = JobsOption(script)) =>
              /\ BUILD_TYPE = "Debug" /\ Action = "configure_and_build"
              /\ JOBS = argv[2] /\ CLEAN_BUILD = FALSE
        /\ argv = <<CleanOption(script)>> =>
              /\ BUILD_TYPE = "Debug" /\ Action = "configure_and_build"
              /\ JOBS = "10" /\ CLEAN_BUILD = TRUE

\* A script given only a job count is about to build with it.
C8_Witness ==
    /\ Len(argv) = 2 /\ argv[1] = JobsOption(script) /\ JOBS = "4"
    /\ pc = "build"

\* C9: when the configure step is about to start the build directory exists;
\* with cleaning on it is empty, a directory left over from an earlier run having
\* been removed and made again; with cleaning off a left-over directory has not
\* been touched and a missing one has been made.
C9_BuildDirBeforeConfigure ==
    (script \in Scripts /\ pc = "configure") =>
        /\ dir # "absent"
        /\ CLEAN_BUILD =>
              /\ dir = "empty"
              /\ dir0 = "stale" => steps = <<"rm", "mkdir">>
        /\ (~CLEAN_BUILD /\ dir0 = "stale") => dir = "stale" /\ steps = <<>>
        /\ (~CLEAN_BUILD /\ dir0 = "absent") => dir = "empty" /\ steps = <<"mkdir">>

\* Action test with cleaning on and a left-over directory, about to configure.
C9_Witness ==
    /\ pc = "configure" /\ CLEAN_BUILD /\ dir0 = "stale" /\ Action = "test"
    /\ dir = "empty"

\* The configure, build and test steps run so far, in order.
StepsRun == SelectSeq(steps, LAMBDA s : s \in {"configure", "build", "test"})

IsPrefix(p, q) == Len(p) <= Len(q) /\ p = SubSeq(q, 1, Len(p))

\* C10: the action in force (the value case $ACTION / switch ($Action) sees)
\* decides the steps: what has run is at any moment a prefix of configure for
\* action configure, of configure, build for configure_and_build, and of
\* configure, build, test for test; and a run that reaches the success banner
\* has run the whole list.
C10_ActionDecidesSteps ==
    (script \in Scripts /\ pc \in {"configure", "build", "test", "banner", "exited"}) =>
        LET want == CASE Action = "configure" -> <<"configure">>
                      [] Action = "configure_and_build" -> <<"configure", "build">>
                      [] Action = "test" -> <<"configure", "build", "test">>
                      [] OTHER -> <<>>
        IN  Action \in {"configure", "configure_and_build", "test"} =>
                /\ IsPrefix(StepsRun, want)
                /\ BannerLine \in {out[i] : i \in DOMAIN out} => StepsRun = want

\* Action test has run its three steps and printed the banner.
C10_Witness ==
    /\ Action = "test" /\ pc = "exited" /\ exit_code = 0
    /\ StepsRun = <<"configure", "build", "test">>

\* C12: the build type in force when the configure step starts or has run (the
\* value put in -DCMAKE_BUILD_TYPE and in the name of the build directory) is
\* one of Debug, Release, RelWithDebInfo, MinSizeRel.
C12_BuildTypeValid ==
    (script \in Scripts
        /\ (pc = "configure" \/ "configure" \in {steps[k] : k \in DOMAIN steps}))
    => BUILD_TYPE \in BuildTypes

\* The user has been shown the prompts of interactive mode.
Prompted == InteractiveHeader \in {out[k] : k \in DOMAIN out}

\* C15: build_macos.sh or build_windows.sh given -interactive has prompted the
\* user by the time it prepares the build directory or starts a configure, build
\* or test step.
C15_InteractivePrompts ==
    (script \in {MACOS, WINDOWS_SH} /\ INTERACTIVE_MODE
        /\ pc \in {"configure", "build", "test", "banner", "exited"}
        /\ steps # <<>>)
    => Prompted

\* The messages printed so far.
Printed == {out[k] : k \in DOMAIN out}

\* The script is past the lines that settle the action and the generator.
Settled == pc \in {"detect", "dispatch", "configure", "build", "test", "banner"}
              \/ (pc = "exited" /\ (steps # <<>> \/ BannerLine \in Printed))

\* C16: build_macos.sh that has read -xcode-only never starts a build or test
\* step, whatever the action and the other flags; once the action is settled it
\* is xcode and the configure command is cmake -G Xcode, and a run that ends
\* well has run exactly the configure step.
C16_XcodeOnly ==
    (script = MACOS /\ XCODE_ONLY) =>
        /\ pc \notin {"build", "test"}
        /\ IsPrefix(StepsRun, <<"configure">>)
        /\ Settled =>
              /\ Action = "xcode"
              /\ ConfiguresXcode(script, GENERATE_XCODE)
        /\ BannerLine \in Printed => StepsRun = <<"configure">>

\* -a test -xcode-only has run the configure step alone and ended well.
C16_Witness ==
    /\ script = MACOS /\ argv = <<"-a", "test", "-xcode-only">>
    /\ XCODE_ONLY /\ pc = "exited" /\ exit_code = 0
    /\ StepsRun = <<"configure">>

\* The generators the configure steps run so far were started with.
GeneratorsRun ==
    {IF ConfiguresXcode(script, GENERATE_XCODE) THEN "Xcode" ELSE "Unix Makefiles" :
        k \in {i \in DOMAIN steps : steps[i] = "configure"}}

\* The programs the build steps run so far started.
BuildToolsRun ==
    {BuildTool(script, GENERATE_XCODE) : k \in {i \in DOMAIN steps : steps[i] = "build"}}

\* C17: a run of build_macos.sh with -xcode (and not -xcode-only) that ends well
\* has generated the Xcode project and has also done the Makefile configure,
\* and the make build when its action builds.
C17_XcodeAlso ==
    (script = MACOS /\ GENERATE_XCODE /\ ~XCODE_ONLY
        /\ "-xcode" \in {argv[k] : k \in DOMAIN argv}
        /\ Action \in {"configure", "build", "test", "xcode_build"}
        /\ BannerLine \in Printed)
    => /\ GeneratorsRun = {"Xcode", "Unix Makefiles"}
       /\ Action # "configure" => "make" \in BuildToolsRun

(***************************************************************************)
(*                      PROPERTIES OF format.sh                            *)
(***************************************************************************)

\* C13: format.sh that has read -check never changes a file; when its check
\* loop has run it has exited with status 1 exactly when some file it was to
\* examine was not formatted, and with status 0 when all were formatted; and
\* format.sh without -check, its loop over, has rewritten every file it was to
\* examine.
C13_CheckOnlyChecks ==
    script = FORMAT_SH =>
        /\ CHECK_ONLY => tree = tree0
        /\ (CHECK_ONLY /\ pc = "exited" /\ SOURCES # {}) =>
              /\ exit_code = 1 <=> \E f \in SOURCES : tree0[f] = "unformatted"
              /\ (\A f \in SOURCES : tree0[f] = "formatted") => exit_code = 0
        /\ (~CHECK_ONLY /\ pc = "exited" /\ SOURCES # {}) =>
              \A f \in SOURCES : f \in rewritten /\ tree[f] = "formatted"

\* The C/C++ sources and headers under src, include, examples and tests, less
\* those under a build, _deps or deps directory.
InScope(q) ==
    /\ \E x \in {".c", ".cpp", ".h", ".hpp"} : HasSuffix(q, x)
    /\ \E d \in {"/src/", "/include/", "/examples/", "/tests/"} :
          SubSeq(q, 1, Len(PROJECT_ROOT) + Len(d)) = PROJECT_ROOT \o d
    /\ \A d \in {"/build/", "/_deps/", "/deps/"} : ~Contains(q, d)

FilesInScope == {q \in FormatPaths : tree0[q] # "absent" /\ InScope(q)}

\* C20: whatever format.sh reads for checking or rewrites is a C/C++ source or
\* header in scope, and a run whose loop is over and ended well has examined
\* every such file.
C20_FormatScope ==
    script = FORMAT_SH =>
        /\ examined \cup rewritten \subseteq FilesInScope
        /\ (pc = "exited" /\ exit_code = 0 /\ SOURCES # {}) => examined = FilesInScope

(***************************************************************************)
(*                    PROPERTIES OF generate-docs.sh                       *)
(***************************************************************************)

\* The functions of the script that have been called are the first ones of
\* the list named, and all of it once the script has ended well.
PhasesAre(list) ==
    /\ IsPrefix(phases, list)
    /\ (pc = "exited" /\ exit_code = 0) => phases = list

\* C14: generate-docs.sh runs only the phases its option names: --api-only
\* the prerequisite check and API-doc generation; --validate the prerequisite
\* check, link validation and the coverage report, and no cmake command; no
\* argument the prerequisite check, API-doc generation, link validation and
\* the coverage report, in this order; --help and -h no phase, with status 0;
\* any other argument no phase, with status 1.
C14_PhasesByOption ==
    script = GENERATE_DOCS_SH =>
        LET arg == FirstArg(argv) IN
        CASE arg = "--api-only" ->
               PhasesAre(<<"check_prerequisites", "generate_api_docs">>)
          [] arg = "--validate" ->
               /\ PhasesAre(<<"check_prerequisites", "validate_links",
                              "generate_coverage_report">>)
               /\ \A k \in DOMAIN steps : steps[k] = "markdown-link-check"
          [] arg = "" ->
               PhasesAre(<<"check_prerequisites", "generate_api_docs", "validate_links",
                           "generate_coverage_report">>)
          [] arg \in {"--help", "-h"} ->
               phases = <<>> /\ steps = <<>> /\ (pc = "exited" => exit_code = 0)
          [] OTHER ->
               phases = <<>> /\ steps = <<>> /\ (pc = "exited" => exit_code = 1)

\* The first argument names a mode that works: none, --api-only or --validate.
DocsRuns == FirstArg(argv) \in {"", "--api-only", "--validate"}

\* cmake is installed and CMakeLists.txt is at the project root.
Required == project.cmakelists /\ "cmake" \in env

\* The cmake commands generate_api_docs runs.
CmakeCommands == {"cmake -DENABLE_DOXYGEN=ON", "cmake --build"}

\* The names of the functions called so far.
Called == {phases[k] : k \in DOMAIN phases}

CallsOf(c) == {k \in DOMAIN log_calls : log_calls[k].call = c}

RECURSIVE GuardsIn(_)
GuardsIn(scopes) == IF scopes = <<>> THEN 0 ELSE Head(scopes) + GuardsIn(Tail(scopes))

\* The guards declared by the statements executed so far.
Declared == Cardinality({k \in 1..(ip - 1) : program[k] = DECLARE_GUARD})

\* What a run of main hands to the logging library, from first to last.
MainCalls ==
    <<"configureLogger", "VNE_LOG_INFO", "VNE_LOG_INFO", "shutdown">>

\* C19: LoggingGuard is an RAII guard.  Each guard constructed has configured
\* logging, for the console; each guard destroyed has shut logging down,
\* once; a guard still alive has not; no program copies a guard; a program
\* that has returned has no guard left.  In main of the example the calls
\* are configureLogger, the log of the greeting of hello(), the log of
\* "Version: " and the text of get_version(), shutdown, in this order and
\* once each, and main returns 0.
C19_GuardRAII ==
    program # <<>> =>
        /\ \A k \in DOMAIN program : program[k] \notin {COPY_CONSTRUCT, COPY_ASSIGN}
        /\ Cardinality(CallsOf("configureLogger")) = Declared
        /\ \A k \in CallsOf("configureLogger") :
              log_calls[k].config.sink = "eConsole" /\ ~log_calls[k].config.async
        /\ Cardinality(CallsOf("shutdown")) + GuardsIn(live) = Declared
        /\ main_ret \in {-1, 0}
        /\ main_ret = 0 <=> ip = Len(program) + 1
        /\ main_ret = 0 => live = <<>> /\ Cardinality(CallsOf("shutdown")) = Declared
        /\ program = MainBody =>
              /\ Len(log_calls) <= Len(MainCalls)
              /\ \A k \in DOMAIN log_calls : log_calls[k].call = MainCalls[k]
              /\ Len(log_calls) >= 2 => log_calls[2].text = "Hello from VneTemplate"
              /\ Len(log_calls) >= 3 => log_calls[3].text = "Version: " \o PROJECT_VERSION
              /\ main_ret = 0 => Len(log_calls) = Len(MainCalls)

\* main of the example has returned 0, its four calls made.
C19_Witness ==
    /\ program = MainBody
    /\ main_ret = 0
    /\ Len(log_calls) = 4
    /\ log_calls[1].call = "configureLogger"
    /\ log_calls[4].call = "shutdown"

(***************************************************************************)
(*             FAILING STEPS, COMMANDS AND THE TEST OPTION                 *)
(***************************************************************************)

\* C21: a bash build script stops at the first step that fails: after a
\* configure that failed no build and no test was run, after a build that
\* failed no test; the script has then exited, with a status other than 0,
\* and without the banner; and the banner is printed only when every step of
\* the action was run and none failed.
C21_StopAtFirstFailure ==
    script \in BashScripts =>
        /\ "configure" \in failed => StepsRun = <<"configure">>
        /\ "build" \in failed => StepsRun = <<"configure", "build">>
        /\ failed # {} => pc = "exited" /\ exit_code > 0 /\ BannerLine \notin Printed
        /\ BannerLine \in Printed =>
              /\ failed = {}
              /\ Action \in {"configure", "build", "configure_and_build", "test",
                             "xcode", "xcode_build"}
              /\ StepsRun = (CASE Action \in {"configure", "xcode"} -> <<"configure">>
                               [] Action = "test" -> <<"configure", "build", "test">>
                               [] OTHER -> <<"configure", "build">>)

\* A bash script whose test action was stopped by a build that failed.
C21_Witness ==
    /\ script \in BashScripts
    /\ Action = "test"
    /\ failed = {"build"}
    /\ StepsRun = <<"configure", "build">>
    /\ pc = "exited"
    /\ exit_code > 0

\* The programs the test steps run so far started.
TestToolsRun ==
    {TestTool(script, GENERATE_XCODE) : k \in {i \in DOMAIN steps : steps[i] = "test"}}

\* C22: in build_macos.sh the build and the test command follow the
\* generator: with GENERATE_XCODE true a build step starts xcodebuild and a
\* test step starts xcodebuild (target RUN_TESTS); with it false a build step
\* starts make and a test step starts ctest.
C22_CommandsFollowGenerator ==
    script = MACOS =>
        /\ BuildToolsRun \subseteq {IF GENERATE_XCODE THEN "xcodebuild" ELSE "make"}
        /\ TestToolsRun \subseteq {IF GENERATE_XCODE THEN "xcodebuild" ELSE "ctest"}

\* The cmake command lines the configure steps run so far were started with.
ConfigureCommandsRun ==
    {ConfigureCommand(script, BUILD_TYPE, COMPILER, GENERATE_XCODE) :
        k \in {i \in DOMAIN steps : steps[i] = "configure"}}

\* C23: every platform build script configures the project with the
\* documented test option on: the cmake command line of each configure step,
\* whatever the action and the flags, holds -DVNE_TEMPLATE_TESTS=ON.
C23_TestOptionOn ==
    script \in Scripts =>
        \A cmd \in ConfigureCommandsRun :
            "-DVNE_TEMPLATE_TESTS=ON" \in {cmd[k] : k \in DOMAIN cmd}

====
